---- MODULE Spec2Model ----
(***************************************************************************)
(* Model of the per-user conversational session engine of src/main.py:     *)
(* the sliding-window rate limiter, the UserState record and its row in    *)
(* user_states, the job queue carrying the Load More inactivity timeout,   *)
(* and the handlers that drive them.                                       *)
(*                                                                         *)
(* One user is modelled: user_states, user_request_counts and the job      *)
(* names are all keyed by user_id and no handler reads another user's      *)
(* entry.  A handler is one atomic step.  External calls that can fail     *)
(* (the sqlite store, Telegram sends, removal of a job that already ran)   *)
(* fail according to the parameter `fault` of the step; at most one kind   *)
(* of fault is injected per handler run.                                   *)
(***************************************************************************)
EXTENDS Bags, Integers, Sequences, FiniteSets, TLC

(* ---------------------------------------------------------------------- *)
(* Python values                                                           *)
(* ---------------------------------------------------------------------- *)

\* A nullable value is <<>> (None) or <<v>>.
None == <<>>

Some(v) == <<v>>

Val(o) == o[1]

Min(a, b) == IF a <= b THEN a ELSE b

\* seq[a:b] of Python, for 0 <= a <= b: indices are clamped to the sequence.
PySlice(seq, a, b) == SubSeq(seq, a + 1, Min(b, Len(seq)))

(* ---------------------------------------------------------------------- *)
(* Program constants                                                       *)
(* ---------------------------------------------------------------------- *)

RATE_LIMIT_REQUESTS == 5

RATE_LIMIT_WINDOW == 60

LOAD_MORE_TIMEOUT == 300

RESULTS_PER_PAGE == 5

SANITIZE_MAX_LEN == 500

(* ---------------------------------------------------------------------- *)
(* Bounds of the model                                                     *)
(* ---------------------------------------------------------------------- *)

\* The clock of SpecTime stops at MaxTime; it advances one Load More timeout
\* at a time (TickSeconds), which is also past the rate-limit window.
MaxTime == 300

\* The provider holds at most MaxPapers papers for a query.
MaxPapers == 6

\* A Load More press stops being drawn once current_page reaches MaxPage
\* (Spec) or MaxPage + 1 (the specifications without store and send faults).
MaxPage == 1

\* The message a Load More press can come from; the handlers never read it.
MessageIds == {"m1"}

(* ---------------------------------------------------------------------- *)
(* Text                                                                    *)
(* ---------------------------------------------------------------------- *)

\* A text is a sequence of characters.  The two menu labels are single
\* tokens: they hold no character that sanitize_input touches.
SEARCH_LABEL == <<"Search">>

HELP_LABEL == <<"Help">>

RawTexts ==
    { <<"a">>, <<" ", "b", "<">>, SEARCH_LABEL, HELP_LABEL }

RECURSIVE LStrip(_)
LStrip(s) == IF s # <<>> /\ Head(s) = " " THEN LStrip(Tail(s)) ELSE s

RECURSIVE RStrip(_)
RStrip(s) ==
    IF s # <<>> /\ s[Len(s)] = " " THEN RStrip(SubSeq(s, 1, Len(s) - 1)) ELSE s

InjectionChars == {"<", ">", ";", "{", "}"}

NotInjectionChar(c) == c \notin InjectionChars

sanitize_input(text) ==
    LET t == SelectSeq(RStrip(LStrip(text)), NotInjectionChar)
    IN  PySlice(t, 0, SANITIZE_MAX_LEN)

(* ---------------------------------------------------------------------- *)
(* Rate limiter                                                            *)
(* ---------------------------------------------------------------------- *)

\* check_rate_limit keeping a timestamp that is exactly RATE_LIMIT_WINDOW old.
InWindow_Inclusive(current_time, t) == current_time - t <= RATE_LIMIT_WINDOW

\* The filter of the list comprehension of check_rate_limit.
InWindow(current_time, t) == current_time - t < RATE_LIMIT_WINDOW

PruneWindow(counts, current_time) ==
    SelectSeq(counts, LAMBDA t : InWindow(current_time, t))

\* check_rate_limit admitting one request too many.
RateLimitExceeded_OffByOne(pruned) == Len(pruned) > RATE_LIMIT_REQUESTS

RateLimitExceeded(pruned) == Len(pruned) >= RATE_LIMIT_REQUESTS

\* check_rate_limit: the pruned list is stored in either case, the timestamp
\* is appended only on admission.
check_rate_limit(counts, current_time) ==
    LET pruned == PruneWindow(counts, current_time)
    IN  IF RateLimitExceeded(pruned)
        THEN [ok |-> FALSE, counts |-> pruned]
        ELSE [ok |-> TRUE, counts |-> Append(pruned, current_time)]

(* ---------------------------------------------------------------------- *)
(* UserState and its row                                                   *)
(* ---------------------------------------------------------------------- *)

AWAITING_QUERY == Some("awaiting_query")

\* UserState._load_from_db when no row exists.
DefaultUserState ==
    [state |-> None, query |-> None, current_page |-> 0,
     load_more_timestamp |-> None, load_more_message_id |-> None,
     last_search_time |-> None, total_results |-> 0, timeout_job |-> None]

\* UserState(user_id): the row's columns 1..7, timeout_job = None.
UserState(row) ==
    IF row = None
    THEN DefaultUserState
    ELSE [state |-> Val(row).state, query |-> Val(row).query,
          current_page |-> Val(row).current_page,
          load_more_timestamp |-> Val(row).load_more_timestamp,
          load_more_message_id |-> Val(row).load_more_message_id,
          last_search_time |-> Val(row).last_search_time,
          total_results |-> Val(row).total_results,
          timeout_job |-> None]

\* save_to_db: INSERT OR REPLACE of the eight session columns; the columns
\* it does not name take their defaults (status 'active').
save_to_db(u) ==
    Some([state |-> u.state, query |-> u.query,
          current_page |-> u.current_page,
          load_more_timestamp |-> u.load_more_timestamp,
          load_more_message_id |-> u.load_more_message_id,
          last_search_time |-> u.last_search_time,
          total_results |-> u.total_results,
          status |-> "active"])

\* `not user_state.query`: None or the empty string.
NoQuery(u) == u.query = None \/ Val(u.query) = <<>>

(* ---------------------------------------------------------------------- *)
(* Job queue                                                               *)
(* ---------------------------------------------------------------------- *)

JobIds(js) == {x.id : x \in js}

\* The elements of a sequence.
Range(q) == {q[i] : i \in DOMAIN q}

\* job_queue.run_once(send_load_more_timeout_message, LOAD_MORE_TIMEOUT, ...)
run_once(js, id, t) == js \cup {[id |-> id, due |-> t + LOAD_MORE_TIMEOUT]}

\* A job that stays in the queue when it runs.
JobRuns_Stays(js, job) == js

\* A run_once job leaves the queue when the scheduler runs it.
JobRuns(js, job) == js \ {job}

\* A removal that leaves the job in the queue.
schedule_removal_NoOp(js, handle) == js

\* Job.schedule_removal on a job that is still scheduled.
schedule_removal(js, handle) == {x \in js : x.id # Val(handle)}

JobIsScheduled(js, handle) == handle # None /\ Val(handle) \in JobIds(js)

(* ---------------------------------------------------------------------- *)
(* Pagination (send_paper_results)                                         *)
(* ---------------------------------------------------------------------- *)

\* A continuation that shows the first page again.
papers_to_show_FirstPage(papers, page, results_per_page, is_load_more) ==
    PySlice(papers, 0, results_per_page)

\* Lines 1506-1516: the slice shown, once the "no more papers" case is out.
papers_to_show(papers, page, results_per_page, is_load_more) ==
    IF is_load_more /\ page > 0
    THEN PySlice(papers, results_per_page * page,
                 results_per_page * page + results_per_page)
    ELSE PySlice(papers, 0, results_per_page)

\* has_more with the comparison made inclusive.
has_more_Inclusive(papers, page, results_per_page) ==
    results_per_page * (page + 1) <= Len(papers)

\* Lines 1550-1551: whether the last message gets the Load More button.
has_more(papers, page, results_per_page) ==
    results_per_page * (page + 1) < Len(papers)

\* Lines 1574-1576: whether the timeout is armed.
ArmCondition(shown, papers, page, results_per_page) ==
    /\ Len(shown) = results_per_page
    /\ (page + 1) * results_per_page < Len(papers)

\* Lines 1498-1576 without their effects: what send_paper_results answers
\* for a successful search.
PageOutcome(papers, page, results_per_page, is_load_more) ==
    IF papers = <<>>
    THEN [reply |-> "no_papers", visible |-> <<>>,
          has_more |-> FALSE, arm |-> FALSE]
    ELSE IF is_load_more /\ page > 0 /\ results_per_page * page >= Len(papers)
    THEN [reply |-> "no_more_papers", visible |-> <<>>,
          has_more |-> FALSE, arm |-> FALSE]
    ELSE LET shown == papers_to_show(papers, page, results_per_page,
                                     is_load_more)
         IN  [reply |-> "papers", visible |-> shown,
              has_more |-> shown # <<>>
                           /\ has_more(papers, page, results_per_page),
              arm |-> ArmCondition(shown, papers, page, results_per_page)]

\* The papers of a successful search: n ranked records.
Papers(n) == [i \in 1..n |-> i]

(* ---------------------------------------------------------------------- *)
(* State                                                                   *)
(* ---------------------------------------------------------------------- *)

VARIABLES
    now,                  \* the clock read by time.time() and datetime.now(utc)
    user_request_counts,  \* user_request_counts[user_id]
    mem,                  \* user_states.get(user_id): None or <<UserState>>
    db,                   \* the user's row of user_states: None or <<row>>
    jobs,                 \* the jobs scheduled in context.job_queue
    out,                  \* what the last handler run did (observation only)
    rate_log,             \* the calls of check_rate_limit (SpecRate only)
    pg,                   \* a pagination case and its outcome (SpecPage only)
    cb,                   \* the jobs whose timeout callback awaits send_message,
                          \* and the jobs whose reminder was sent (SpecRace
                          \* only)
    pdf_downloads,        \* the user's rows of pdf_downloads, a bag: the day
                          \* of the timestamp and file_size in KB
                          \* (SpecDownload only)
    traffic_limits,       \* the user's row of traffic_limits: None or
                          \* <<quota_reached_time>> (SpecDownload only)
    chat                  \* the Download buttons the chat shows, each with
                          \* the query of its result message, and the one
                          \* pressed last (SpecButtons only)

vars ==
    <<now, user_request_counts, mem, db, jobs, out, rate_log, pg, cb,
      pdf_downloads, traffic_limits, chat>>

\* The faults a handler run can meet: the store is unavailable; the first
\* plain reply of the handler raises; the first reply of send_paper_results
\* raises; the last paper message raises; removing a job that already ran
\* raises.
Faults == {"none", "db", "send_first", "send_found", "send_last", "stale_job"}

\* What the provider holds for a query: an error, no paper, exactly a page,
\* or MaxPapers papers.
SearchOutcomes ==
    {[error |-> TRUE, n |-> 0], [error |-> FALSE, n |-> 0]}
        \cup {[error |-> FALSE, n |-> k] : k \in {RESULTS_PER_PAGE, MaxPapers}}

NoObs ==
    [max_results |-> None, returned |-> None, shown |-> 0,
     affordance |-> FALSE]

\* The observation of a handler run.
Out(op, gate, text, replies, raised, obs) ==
    [op |-> op, gate |-> gate, text |-> text, replies |-> replies,
     raised |-> raised, max_results |-> obs.max_results,
     returned |-> obs.returned, shown |-> obs.shown,
     affordance |-> obs.affordance]

NoPg == [applied |-> FALSE, n |-> 0, page |-> 0, size |-> 1,
         cont |-> FALSE, outcome |-> PageOutcome(<<>>, 0, 1, FALSE)]

\* No call of check_rate_limit yet.
NoRateLog ==
    [called |-> FALSE, at |-> 0, ok |-> FALSE, prev_ok |-> FALSE,
     before |-> <<>>, admitted |-> <<>>]

\* No timeout callback is in flight and no reminder was sent.
NoCallbacks == [running |-> <<>>, reminders |-> <<>>]

\* The chat shows no Download button and none was pressed.
NoChat == [shown |-> {}, pressed |-> None]

Init ==
    /\ now = 0
    /\ user_request_counts = <<>>
    /\ mem = None
    /\ db = None
    /\ jobs = {}
    /\ out = Out("init", "none", None, {}, FALSE, NoObs)
    /\ rate_log = NoRateLog
    /\ pg = NoPg
    /\ cb = NoCallbacks
    /\ pdf_downloads = EmptyBag
    /\ traffic_limits = None
    /\ chat = NoChat

(* ---------------------------------------------------------------------- *)
(* cleanup_load_more_state and send_paper_results                          *)
(* ---------------------------------------------------------------------- *)

\* cleanup_load_more_state for a user in user_states.  A failure of
\* schedule_removal is caught inside; a failure of save_to_db reaches the
\* except branch, whose own save_to_db raises out of the function.
cleanup_load_more_state(u, d, j, dbOk) ==
    LET j1 == IF u.timeout_job # None
              THEN schedule_removal(j, u.timeout_job) ELSE j
        u1 == [u EXCEPT !.timeout_job = None,
                        !.load_more_timestamp = None,
                        !.load_more_message_id = None]
    IN  IF dbOk
        THEN [u |-> u1, d |-> save_to_db(u1), j |-> j1, raised |-> FALSE]
        ELSE [u |-> u1, d |-> d, j |-> j1, raised |-> TRUE]

\* A request for the pages shown so far and no look-ahead page.
max_results_NoLookAhead(page, results_per_page) == results_per_page * (page + 1)

\* The number of results send_paper_results asks the provider for.
max_results(page, results_per_page) == results_per_page * (page + 2)

\* The id of a new job (a new Job object): the least one that no scheduled
\* job, no handle still held by the session, no callback in flight and no
\* reminder sent carries.
NewJobId(js, handle) ==
    LET used == JobIds(js)
                    \cup (IF handle = None THEN {} ELSE {Val(handle)})
                    \cup Range(cb.running) \cup Range(cb.reminders)
    IN  CHOOSE i \in 1..(Cardinality(used) + 1) :
            i \notin used /\ \A k \in 1..(i - 1) : k \in used

\* Lines 1574-1584: arming the timeout.
ArmTimeout(u, j, t) ==
    LET id == NewJobId(j, u.timeout_job)
    IN  [u |-> [u EXCEPT !.load_more_timestamp = Some(t),
                         !.timeout_job = Some(id)],
         j |-> run_once(j, id, t)]

\* A new search that keeps the query of the last one.
ResetForNewQuery_KeepsQuery(u, query) == [u EXCEPT !.current_page = 0]

\* Lines 1471-1473: a search that is no continuation starts at page 0.
ResetForNewQuery(u, query) ==
    [u EXCEPT !.current_page = 0, !.query = Some(query)]

\* send_paper_results for a user in user_states.  The result carries the
\* session, the row, the jobs, the replies sent and the observation.
send_paper_results(u, d, j, query, is_load_more, res, fault, t) ==
    LET dbOk == fault # "db"
        u1 == IF is_load_more THEN u ELSE ResetForNewQuery(u, query)
        Failed(uu, dd, jj, obs) ==
            [u |-> uu, d |-> dd, j |-> jj, replies |-> {"error"}, obs |-> obs]
    IN
    IF ~is_load_more /\ ~dbOk
    THEN Failed(u1, d, j, NoObs)
    ELSE
    LET c == IF is_load_more
             THEN [u |-> u1, d |-> d, j |-> j]
             ELSE cleanup_load_more_state(u1, save_to_db(u1), j, TRUE)
        page == c.u.current_page
        asked == max_results(page, RESULTS_PER_PAGE)
        papers == Papers(Min(res.n, asked))
        obs0 == [NoObs EXCEPT !.max_results = Some(asked)]
        obs1 == [obs0 EXCEPT !.returned = Some(Len(papers))]
        outcome == PageOutcome(papers, page, RESULTS_PER_PAGE, is_load_more)
    IN
    IF res.error
    THEN IF fault = "send_found"
         THEN Failed(c.u, c.d, c.j, obs0)
         ELSE [u |-> c.u, d |-> c.d, j |-> c.j,
               replies |-> {"search_error"}, obs |-> obs0]
    ELSE IF outcome.reply # "papers"
    THEN IF fault = "send_found"
         THEN Failed(c.u, c.d, c.j, obs1)
         ELSE [u |-> c.u, d |-> c.d, j |-> c.j,
               replies |-> {outcome.reply}, obs |-> obs1]
    ELSE
    LET u2 == IF is_load_more THEN c.u
              ELSE [c.u EXCEPT !.total_results = Len(papers)]
        d2 == IF is_load_more THEN c.d ELSE save_to_db(u2)
    IN
    IF ~is_load_more /\ fault = "send_found"
    THEN Failed(u2, d2, c.j, obs1)
    ELSE
    LET obs2 == [obs1 EXCEPT !.shown = Len(outcome.visible),
                             !.affordance = outcome.has_more
                                            /\ fault # "send_last"]
        said == IF is_load_more THEN {"papers"}
                ELSE {"results_found", "papers"}
        a == ArmTimeout(u2, c.j, t)
    IN
    IF ~outcome.arm
    THEN [u |-> u2, d |-> d2, j |-> c.j, replies |-> said, obs |-> obs2]
    ELSE IF dbOk
    THEN [u |-> a.u, d |-> save_to_db(a.u), j |-> a.j,
          replies |-> said, obs |-> obs2]
    ELSE [u |-> a.u, d |-> d2, j |-> a.j,
          replies |-> said \cup {"error"}, obs |-> obs2]

(* ---------------------------------------------------------------------- *)
(* Handlers                                                                *)
(* ---------------------------------------------------------------------- *)

\* Lines 1008-1044 of handle_text: message_logs references user_states with
\* foreign keys on, so the block commits (and sets the row's
\* last_search_time) only when the user's row exists and the store answers.
LogSearchActivity(d, dbOk, t) ==
    IF dbOk /\ d # None
    THEN Some([Val(d) EXCEPT !.last_search_time = Some(t)])
    ELSE d

\* handle_message_buttons, which compares the raw message text.
handle_message_buttons(raw, fault) ==
    IF raw = SEARCH_LABEL
    THEN IF fault = "db"
         THEN \* UserState() or save_to_db raises into handle_text's except
              /\ mem' = IF mem = None THEN None
                        ELSE Some([Val(mem) EXCEPT !.state = AWAITING_QUERY])
              /\ UNCHANGED db
              /\ out' = Out("handle_text", "menu", None, {"error"}, FALSE,
                            NoObs)
         ELSE LET u == IF mem = None THEN UserState(db) ELSE Val(mem)
                  u1 == [u EXCEPT !.state = AWAITING_QUERY]
              IN  /\ mem' = Some(u1)
                  /\ db' = save_to_db(u1)
                  /\ out' = Out("handle_text", "menu", None,
                                IF fault = "send_first" THEN {"error"}
                                ELSE {"search_prompt"}, FALSE, NoObs)
    ELSE /\ UNCHANGED <<mem, db>>
         /\ out' = Out("handle_text", "menu", None,
                       IF raw # HELP_LABEL THEN {}
                       ELSE IF fault = "send_first" THEN {"error"}
                       ELSE {"help"}, FALSE, NoObs)

\* Lines 1001-1076 of handle_text: an admitted text that is no menu label.
SearchFlow(message_text, res, fault) ==
    LET dbOk == fault # "db"
        Abort(m, d, j) ==
            /\ mem' = m
            /\ db' = d
            /\ jobs' = j
            /\ out' = Out("handle_text", "admitted", Some(message_text),
                          {"error"}, FALSE, NoObs)
    IN
    IF mem = None /\ ~dbOk
    THEN Abort(None, db, jobs)
    ELSE
    LET u0 == IF mem = None THEN UserState(db) ELSE Val(mem)
        stale == u0.timeout_job # None /\ ~JobIsScheduled(jobs, u0.timeout_job)
    IN
    IF stale /\ fault = "stale_job"
    THEN Abort(Some(u0), db, jobs)
    ELSE
    LET j1 == IF u0.timeout_job # None
              THEN schedule_removal(jobs, u0.timeout_job) ELSE jobs
        u1 == [u0 EXCEPT !.timeout_job = None]
        d1 == LogSearchActivity(db, dbOk, now)
        awaiting == u1.state = AWAITING_QUERY
        u2 == IF awaiting
              THEN [u1 EXCEPT !.state = None, !.query = Some(message_text),
                              !.current_page = 0,
                              !.last_search_time = Some(now)]
              ELSE u1
    IN
    IF awaiting /\ ~dbOk
    THEN Abort(Some(u2), d1, j1)
    ELSE
    LET d2 == IF awaiting THEN save_to_db(u2) ELSE d1
        c == cleanup_load_more_state(u2, d2, j1, dbOk)
    IN
    IF c.raised \/ fault = "send_first"
    THEN Abort(Some(c.u), c.d, c.j)
    ELSE
    LET r == send_paper_results(c.u, c.d, c.j, message_text, FALSE, res,
                                fault, now)
    IN  /\ mem' = Some(r.u)
        /\ db' = r.d
        /\ jobs' = r.j
        /\ out' = Out("handle_text", "admitted", Some(message_text),
                      {"searching"} \cup r.replies, FALSE, r.obs)

\* A rate check made after the pending timeout was cancelled (lines
\* 1004-1006 moved before it).
RateLimited_AfterCancel(fault) ==
    /\ mem' = IF mem = None THEN mem
              ELSE Some([Val(mem) EXCEPT !.timeout_job = None])
    /\ jobs' = IF mem # None /\ JobIsScheduled(jobs, Val(mem).timeout_job)
               THEN schedule_removal(jobs, Val(mem).timeout_job) ELSE jobs
    /\ UNCHANGED db
    /\ out' = Out("handle_text", "rejected", None,
                  IF fault = "send_first" THEN {"error"} ELSE {"rate_limit"},
                  FALSE, NoObs)

\* Lines 992-996 of handle_text: the request is not admitted.
RateLimited(fault) ==
    /\ UNCHANGED <<mem, db, jobs>>
    /\ out' = Out("handle_text", "rejected", None,
                  IF fault = "send_first" THEN {"error"} ELSE {"rate_limit"},
                  FALSE, NoObs)

\* handle_text for the message `raw`.
handle_text(raw, res, fault) ==
    LET message_text == sanitize_input(raw)
        invalid == fault # "db" /\ db # None /\ Val(db).status = "invalid"
        rl == check_rate_limit(user_request_counts, now)
    IN
    /\ UNCHANGED <<now, rate_log, pg, cb, pdf_downloads, traffic_limits>>
    /\ IF invalid
       THEN /\ UNCHANGED <<user_request_counts, mem, db, jobs>>
            /\ out' = Out("handle_text", "invalid", None,
                          IF fault = "send_first" THEN {"error"}
                          ELSE {"invalid_account"}, FALSE, NoObs)
       ELSE /\ user_request_counts' = rl.counts
            /\ IF ~rl.ok
               THEN RateLimited(fault)
               ELSE IF message_text \in {SEARCH_LABEL, HELP_LABEL}
               THEN /\ handle_message_buttons(raw, fault)
                    /\ UNCHANGED jobs
               ELSE SearchFlow(message_text, res, fault)

\* /start.  The row is rewritten (nine columns, the two load-more columns
\* left NULL) only when it already exists: the insert into message_logs that
\* precedes it in the same transaction fails on the foreign key otherwise.
start(has_username, fault) ==
    /\ UNCHANGED <<now, user_request_counts, jobs, rate_log, pg, cb,
                   pdf_downloads, traffic_limits, chat>>
    /\ IF mem = None /\ fault = "db"
       THEN /\ UNCHANGED <<mem, db>>
            /\ out' = Out("start", "none", None, {}, TRUE, NoObs)
       ELSE LET u == IF mem = None THEN UserState(db) ELSE Val(mem)
            IN  /\ mem' = Some(u)
                /\ db' = IF fault # "db" /\ db # None
                         THEN Some([state |-> u.state, query |-> u.query,
                                    current_page |-> u.current_page,
                                    load_more_timestamp |-> None,
                                    load_more_message_id |-> None,
                                    last_search_time |-> u.last_search_time,
                                    total_results |-> u.total_results,
                                    status |-> IF has_username THEN "active"
                                               ELSE "invalid"])
                         ELSE db
                /\ out' = IF fault = "send_first"
                          THEN Out("start", "none", None, {}, TRUE, NoObs)
                          ELSE Out("start", "none", None, {"welcome"}, FALSE,
                                   NoObs)

\* handle_buttons for callback data action_search / action_help.  Nothing
\* catches what it raises.
handle_buttons(data, fault) ==
    /\ UNCHANGED <<now, user_request_counts, jobs, rate_log, pg, cb,
                   pdf_downloads, traffic_limits, chat>>
    /\ IF data = "action_search"
       THEN IF fault = "db"
            THEN /\ mem' = IF mem = None THEN None
                           ELSE Some([Val(mem) EXCEPT !.state = AWAITING_QUERY])
                 /\ UNCHANGED db
                 /\ out' = Out("handle_buttons", "none", None, {}, TRUE, NoObs)
            ELSE LET u == IF mem = None THEN UserState(db) ELSE Val(mem)
                     u1 == [u EXCEPT !.state = AWAITING_QUERY]
                 IN  /\ mem' = Some(u1)
                     /\ db' = save_to_db(u1)
                     /\ out' = IF fault = "send_first"
                               THEN Out("handle_buttons", "none", None, {},
                                        TRUE, NoObs)
                               ELSE Out("handle_buttons", "none", None,
                                        {"search_prompt"}, FALSE, NoObs)
       ELSE /\ UNCHANGED <<mem, db>>
            /\ out' = IF fault = "send_first"
                      THEN Out("handle_buttons", "none", None, {}, TRUE, NoObs)
                      ELSE Out("handle_buttons", "none", None, {"help"}, FALSE,
                               NoObs)

\* The observation of a Load More press on message message_id; save_failed
\* tells that save_to_db raised.
LoadMoreOut(message_id, replies, raised, save_failed) ==
    [op |-> "handle_load_more", gate |-> "none", text |-> Some(message_id),
     replies |-> replies, raised |-> raised, max_results |-> None,
     returned |-> None, shown |-> 0, affordance |-> FALSE,
     save_failed |-> save_failed]

\* Lines 955-958 of handle_load_more.
AdvancePage(u) == [u EXCEPT !.current_page = u.current_page + 1]

\* handle_load_more.  With no session the f-string of the warning reads
\* .query of the str 'None' and raises.  The body ends at line 961, an
\* attribute read on the job whose outcome the library decides (attr_raises).
handle_load_more(message_id, fault, attr_raises) ==
    /\ UNCHANGED <<now, user_request_counts, jobs, rate_log, pg, cb,
                   pdf_downloads, traffic_limits, chat>>
    /\ IF mem = None
       THEN /\ UNCHANGED <<mem, db>>
            /\ out' = LoadMoreOut(message_id, {}, TRUE, FALSE)
       ELSE IF NoQuery(Val(mem))
       THEN /\ UNCHANGED <<mem, db>>
            /\ out' = IF fault = "send_first"
                      THEN LoadMoreOut(message_id, {}, TRUE, FALSE)
                      ELSE LoadMoreOut(message_id, {"session_expired"}, FALSE,
                                       FALSE)
       ELSE /\ mem' = Some(AdvancePage(Val(mem)))
            /\ IF fault = "db"
               THEN /\ UNCHANGED db
                    /\ out' = LoadMoreOut(message_id, {}, TRUE, TRUE)
               ELSE /\ db' = save_to_db(AdvancePage(Val(mem)))
                    /\ out' = LoadMoreOut(message_id, {},
                                  Val(mem).timeout_job # None /\ attr_raises,
                                  FALSE)

\* Lines 911-915: the test the timeout callback makes before it reminds.
TimeoutDue(u, t) ==
    /\ u.load_more_timestamp # None
    /\ t - Val(u.load_more_timestamp) >= LOAD_MORE_TIMEOUT

\* send_load_more_timeout_message, run by the job queue for a job that is due;
\* a run_once job leaves the queue when it runs.
send_load_more_timeout_message(job, fault) ==
    /\ now >= job.due
    /\ jobs' = JobRuns(jobs, job)
    /\ UNCHANGED <<now, user_request_counts, rate_log, pg, cb, pdf_downloads, traffic_limits, chat>>
    /\ IF mem # None /\ TimeoutDue(Val(mem), now)
       THEN IF fault = "send_first"
            THEN /\ UNCHANGED <<mem, db>>
                 /\ out' = Out("timeout", "none", None, {}, FALSE, NoObs)
            ELSE LET u1 == [Val(mem) EXCEPT !.timeout_job = None,
                                            !.load_more_timestamp = None,
                                            !.load_more_message_id = None]
                 IN  /\ mem' = Some(u1)
                     /\ db' = IF fault = "db" THEN db ELSE save_to_db(u1)
                     /\ out' = Out("timeout", "none", None,
                                   {"timeout_message"}, FALSE, NoObs)
       ELSE /\ UNCHANGED <<mem, db>>
            /\ out' = Out("timeout", "none", None, {}, FALSE, NoObs)

\* Time passes.
TickSeconds == LOAD_MORE_TIMEOUT

Tick ==
    /\ now + TickSeconds <= MaxTime
    /\ now' = now + TickSeconds
    /\ UNCHANGED <<user_request_counts, mem, db, jobs, out, rate_log, pg, cb,
                   pdf_downloads, traffic_limits, chat>>

\* A Load More press is drawn while it would not take current_page past k.
PageBelow(k) ==
    IF mem = None THEN TRUE
    ELSE IF NoQuery(Val(mem)) THEN TRUE
    ELSE Val(mem).current_page < k

\* A message that starts a search: the user is under the rate limit and the
\* text is no menu label.
StartsSearch(raw) ==
    /\ check_rate_limit(user_request_counts, now).ok
    /\ sanitize_input(raw) \notin {SEARCH_LABEL, HELP_LABEL}

\* No provider outcome: the handler run does not reach the provider.
NotAsked == [error |-> FALSE, n |-> 0]

\* The outcomes the provider can give for the message: it is asked only when
\* a search starts.
OutcomesFor(raw) == IF StartsSearch(raw) THEN SearchOutcomes ELSE {NotAsked}

PlainFaults == {"none", "db", "send_first"}

\* The faults that can occur for the message in the state.  A handler that
\* starts no search sends one reply.  In a search, a store failure, a failed
\* "searching" notice and a failed removal of a job that already ran (possible
\* only when the session holds the handle of such a job) all end the handler
\* before the provider is asked, so they are drawn with NotAsked only; the
\* last paper message exists only when papers were found.
FaultsFor(raw, res) ==
    IF ~StartsSearch(raw)
    THEN PlainFaults
    ELSE {"none", "send_found"}
            \cup (IF ~res.error /\ res.n > 0 THEN {"send_last"} ELSE {})
            \cup (IF res = NotAsked THEN {"db", "send_first"} ELSE {})
            \cup (IF res = NotAsked /\ mem # None
                      /\ Val(mem).timeout_job # None
                      /\ ~JobIsScheduled(jobs, Val(mem).timeout_job)
                   THEN {"stale_job"} ELSE {})

\* The handlers of inbound events.
Handlers ==
    \/ \E raw \in RawTexts :
            \E res \in OutcomesFor(raw) :
                \E fault \in FaultsFor(raw, res) :
                    /\ handle_text(raw, res, fault)
                    /\ UNCHANGED chat
    \/ \E data \in {"action_search", "action_help"}, fault \in PlainFaults :
            handle_buttons(data, fault)
    \/ \E message_id \in MessageIds, fault \in PlainFaults,
          attr_raises \in BOOLEAN :
            /\ PageBelow(MaxPage)
            /\ handle_load_more(message_id, fault, attr_raises)

\* The session engine at one instant: every handler under every fault.  No
\* timeout comes due, the clock does not move.
Next == Handlers

Spec == Init /\ [][Next]_vars

(* ---------------------------------------------------------------------- *)
(* The session engine over time                                            *)
(* ---------------------------------------------------------------------- *)

\* The faults of SpecTime: the store and the transport work, except that the
\* reminder can fail to be delivered and a job that already ran cannot be
\* removed.
TimeFaultsFor(raw, res) ==
    {"none"} \cup (FaultsFor(raw, res) \cap {"stale_job"})

\* The handlers, /start, the timeout callback of a job that is due, and the
\* clock.
NextTime ==
    \/ \E raw \in RawTexts :
            \E res \in OutcomesFor(raw) :
                \E fault \in TimeFaultsFor(raw, res) :
                    /\ handle_text(raw, res, fault)
                    /\ UNCHANGED chat
    \/ \E data \in {"action_search", "action_help"} :
            handle_buttons(data, "none")
    \/ \E message_id \in MessageIds, attr_raises \in BOOLEAN :
            /\ PageBelow(MaxPage + 1)
            /\ handle_load_more(message_id, "none", attr_raises)
    \/ \E has_username \in BOOLEAN : start(has_username, "none")
    \/ \E job \in jobs, fault \in {"none", "send_first"} :
            send_load_more_timeout_message(job, fault)
    \/ Tick

SpecTime == Init /\ [][NextTime]_vars

(* ---------------------------------------------------------------------- *)
(* The timeout callback interleaved with the handlers                      *)
(* ---------------------------------------------------------------------- *)

\* The clock of SpecRace runs to MaxRaceTime; at most MaxCallbacks callbacks
\* await their send_message at a time.
MaxRaceTime == 600

MaxCallbacks == 2

\* q without its i-th element.
RemoveAt(q, i) == SubSeq(q, 1, i - 1) \o SubSeq(q, i + 1, Len(q))

\* Lines 904-917 of send_load_more_timeout_message: the scheduler runs a due
\* job; the callback makes its test and, when it passes, awaits send_message.
TimeoutBegin(job) ==
    /\ now >= job.due
    /\ Len(cb.running) < MaxCallbacks
    /\ jobs' = JobRuns(jobs, job)
    /\ cb' = IF mem # None /\ TimeoutDue(Val(mem), now)
             THEN [cb EXCEPT !.running = Append(@, job.id)]
             ELSE cb
    /\ out' = Out("timeout_begin", "none", None, {}, FALSE, NoObs)
    /\ UNCHANGED <<now, user_request_counts, mem, db, rate_log, pg,
                   pdf_downloads, traffic_limits, chat>>

\* Lines 918-928: send_message returns to the i-th waiting callback, which
\* clears the fields of the session and saves it, or raises, which is logged.
TimeoutEnd(i, fault) ==
    /\ i \in DOMAIN cb.running
    /\ UNCHANGED <<now, user_request_counts, jobs, rate_log, pg,
                   pdf_downloads, traffic_limits, chat>>
    /\ IF fault = "send_first"
       THEN /\ cb' = [cb EXCEPT !.running = RemoveAt(@, i)]
            /\ UNCHANGED <<mem, db>>
            /\ out' = Out("timeout", "none", None, {}, FALSE, NoObs)
       ELSE LET u1 == [Val(mem) EXCEPT !.timeout_job = None,
                                       !.load_more_timestamp = None,
                                       !.load_more_message_id = None]
            IN  /\ cb' = [running |-> RemoveAt(cb.running, i),
                          reminders |-> Append(cb.reminders, cb.running[i])]
                /\ mem' = Some(u1)
                /\ db' = save_to_db(u1)
                /\ out' = Out("timeout", "none", None, {"timeout_message"},
                              FALSE, NoObs)

\* Time passes in SpecRace.
RaceTick ==
    /\ now + TickSeconds <= MaxRaceTime
    /\ now' = now + TickSeconds
    /\ UNCHANGED <<user_request_counts, mem, db, jobs, out, rate_log, pg, cb,
                   pdf_downloads, traffic_limits, chat>>

\* Messages, the two halves of the timeout callback, and the clock.
NextRace ==
    \/ \E raw \in RawTexts :
            \E res \in OutcomesFor(raw) :
                \E fault \in TimeFaultsFor(raw, res) :
                    /\ handle_text(raw, res, fault)
                    /\ UNCHANGED chat
    \/ \E job \in jobs : TimeoutBegin(job)
    \/ \E i \in 1..MaxCallbacks, fault \in {"none", "send_first"} :
            TimeoutEnd(i, fault)
    \/ RaceTick

SpecRace == Init /\ [][NextRace]_vars

(* ---------------------------------------------------------------------- *)
(* The inactivity reminder under a fair scheduler                          *)
(* ---------------------------------------------------------------------- *)

\* A user event is drawn while a timeout armed by it can still come due
\* before the clock stops.
CanComeDue == now + LOAD_MORE_TIMEOUT <= MaxTime

\* The job queue runs a job that is due.
RunDueJob ==
    \E job \in jobs, fault \in {"none", "send_first"} :
        send_load_more_timeout_message(job, fault)

\* Messages and button presses, the timeout callback, and the clock.
NextLive ==
    \/ \E raw \in RawTexts :
            \E res \in OutcomesFor(raw) :
                \E fault \in TimeFaultsFor(raw, res) :
                    /\ CanComeDue
                    /\ handle_text(raw, res, fault)
                    /\ UNCHANGED chat
    \/ \E data \in {"action_search", "action_help"} :
            /\ CanComeDue
            /\ handle_buttons(data, "none")
    \/ RunDueJob
    \/ Tick

\* Time passes and the job queue runs every job that is due; the user may
\* stop sending events at any moment.
SpecLive ==
    Init /\ [][NextLive]_vars /\ WF_vars(Tick) /\ WF_vars(RunDueJob)

(* ---------------------------------------------------------------------- *)
(* download_paper and the daily traffic limit                              *)
(* ---------------------------------------------------------------------- *)

\* File sizes are counted in KB; MB is one megabyte (1024 * 1024 bytes).
MB == 1024

TRAFFIC_LIMIT_MB == 2048

MAX_SINGLE_DOWNLOAD_MB == 100

TELEGRAM_FILE_SIZE_LIMIT == 20 * MB

SECONDS_PER_DAY == 86400

\* The clock of SpecDownload runs to MaxDownloadTime, and downloads are drawn
\* until MaxDownloads rows were added to the fullest ledger of InitDownload.
MaxDownloadTime == 86400

MaxDownloads == 2

\* datetime.now(utc).date(): the rows of a day are those whose timestamp is
\* from its midnight on and before the next midnight.
Day(t) == t \div SECONDS_PER_DAY

RECURSIVE TotalOf(_, _)
\* The file sizes of the rows rs of the table, added up.
TotalOf(rows, rs) ==
    IF rs = {} THEN 0
    ELSE LET r == CHOOSE x \in rs : TRUE
         IN  r.file_size * CopiesIn(r, rows) + TotalOf(rows, rs \ {r})

\* SELECT COALESCE(SUM(file_size), 0) ... WHERE timestamp >= start_of_day AND
\* timestamp < end_of_day.
TotalOfDay(rows, day) ==
    TotalOf(rows, {r \in BagToSet(rows) : r.day = day})

\* A limit that only a total above it reaches.
QuotaReached_Strict(total) == total > TRAFFIC_LIMIT_MB * MB

\* Line 1147: total_mb >= traffic_limit_mb.
QuotaReached(total) == total >= TRAFFIC_LIMIT_MB * MB

\* A download that leaves no row.
InsertDownload_Dropped(rows, t, file_size) == rows

\* Lines 1382-1400: INSERT INTO pdf_downloads.
InsertDownload(rows, t, file_size) ==
    rows (+) SetToBag({[day |-> Day(t), file_size |-> file_size]})

\* The faults of a download: the store is unavailable; the "Fetching PDF"
\* notice raises; the message that answers the request raises; send_document
\* raises; the INSERT INTO pdf_downloads raises; processing_message.delete()
\* raises; the "Fetching PDF" notice raises a NetworkError.
DownloadFaults ==
    {"none", "db", "send_first", "send_reply", "send_document", "db_insert",
     "delete", "network_first"}

\* The sizes a header of the size probe (HEAD, then a range GET) can name.
FileSizes ==
    {0, MB, TELEGRAM_FILE_SIZE_LIMIT, TELEGRAM_FILE_SIZE_LIMIT + 1,
     MAX_SINGLE_DOWNLOAD_MB * MB + 1}

\* What the two requests of the size probe can bring: the status of the
\* HEAD response is 200 or not and it has a Content-Length or none; the
\* status of the range GET is 200 or 206 or not and it has a Content-Range
\* with the total or none.  (What is not read is left at FALSE and None.)
ProbeResponses ==
    {[head_ok |-> FALSE, content_length |-> None, range_ok |-> FALSE,
      content_range |-> None]}
        \cup {[head_ok |-> TRUE, content_length |-> Some(k),
               range_ok |-> FALSE, content_range |-> None] : k \in FileSizes}
        \cup {[head_ok |-> TRUE, content_length |-> None,
               range_ok |-> FALSE, content_range |-> None]}
        \cup {[head_ok |-> TRUE, content_length |-> None, range_ok |-> TRUE,
               content_range |-> c] :
                    c \in {None} \cup {Some(k) : k \in FileSizes}}

NotProbed == [ok |-> FALSE, file_size |-> 0, known |-> FALSE]

\* Lines 1297-1333: the size the probe gives for the responses r, and whether
\* a header gave it.  A range response without Content-Range is read as
\* "/0": the size is 0.
SizeProbe(r) ==
    IF ~r.head_ok
    THEN NotProbed
    ELSE IF r.content_length # None
    THEN [ok |-> TRUE, file_size |-> Val(r.content_length), known |-> TRUE]
    ELSE IF ~r.range_ok
    THEN NotProbed
    ELSE IF r.content_range = None
    THEN [ok |-> TRUE, file_size |-> 0, known |-> FALSE]
    ELSE [ok |-> TRUE, file_size |-> Val(r.content_range), known |-> TRUE]

Probes == {SizeProbe(r) : r \in ProbeResponses}

\* The observation of a download_paper run: the replies and their number,
\* whether the "Fetching PDF" message was deleted, what was asked of the
\* provider (max_results and the session's query), today's total the quota
\* check read and the size probed; and of the event ev: the button's index,
\* how many times the handler has run for the event, whether a NetworkError
\* left the handler, whether a header of the probe gave the size.
DownloadOut(replies, sent, deleted, raised, asked, used, file_size, ev) ==
    [op |-> "download_paper", gate |-> "none", text |-> None,
     replies |-> replies, raised |-> raised, max_results |-> asked,
     returned |-> None, shown |-> 0, affordance |-> FALSE,
     query |-> IF asked = None \/ mem = None THEN None ELSE Val(mem).query,
     day |-> Day(now), used |-> used, file_size |-> file_size,
     sent |-> sent, deleted |-> deleted, index |-> ev.index,
     runs |-> ev.runs, network |-> raised /\ ev.network,
     size_known |-> ev.size_known]

\* A download_paper run that ends with one answer after the "Fetching PDF"
\* notice, followed by an unguarded processing_message.delete() and return.
\* A TelegramError of the answer or of the delete goes to the except clause
\* around it: inside the size check's try that is "Failed to send PDF",
\* elsewhere the generic error of the outer handler; both then delete the
\* notice under a guard.
Answer(reply, inner, fault, asked, used, file_size, ev) ==
    LET fallback == IF inner THEN "send_failed" ELSE "error"
    IN  /\ UNCHANGED pdf_downloads
        /\ out' =
            IF fault = "send_reply"
            THEN DownloadOut({"fetching", fallback}, 2, TRUE, FALSE, asked,
                             used, file_size, ev)
            ELSE IF fault = "delete"
            THEN DownloadOut({"fetching", reply, fallback}, 3, FALSE, FALSE,
                             asked, used, file_size, ev)
            ELSE DownloadOut({"fetching", reply}, 2, TRUE, FALSE, asked,
                             used, file_size, ev)

\* download_paper for the button download_<paper_index>.  res is what the
\* provider holds for the query, probe what the size probe gives; runs counts
\* the runs of the handler for this button press.
download_paper(paper_index, res, probe, fault, runs) ==
    LET used == TotalOfDay(pdf_downloads, Day(now))
        asked == Some(paper_index + 1)
        ev == [index |-> paper_index, runs |-> runs,
               network |-> fault = "network_first",
               size_known |-> probe.known]
    IN  /\ UNCHANGED <<now, user_request_counts, mem, db, jobs, rate_log, pg,
                       cb>>
        /\ IF fault \in {"send_first", "network_first"}
           THEN /\ UNCHANGED <<pdf_downloads, traffic_limits>>
                /\ out' = DownloadOut({}, 0, FALSE, TRUE, None, 0, 0, ev)
           ELSE IF fault = "db"
           THEN /\ UNCHANGED traffic_limits
                /\ Answer("error", FALSE, fault, None, 0, 0, ev)
           ELSE IF QuotaReached(used)
           THEN IF db = None
                THEN /\ UNCHANGED traffic_limits
                     /\ Answer("error", FALSE, fault, None, used, 0, ev)
                ELSE /\ traffic_limits' = Some(now)
                     /\ Answer("quota", FALSE, fault, None, used, 0, ev)
           ELSE /\ UNCHANGED traffic_limits
                /\ IF mem = None
                   THEN Answer("session_expired", FALSE, fault, None, used, 0, ev)
                   ELSE IF NoQuery(Val(mem))
                   THEN Answer("session_expired", FALSE, fault, None, used, 0, ev)
                   ELSE IF Val(mem).total_results > 0
                            /\ paper_index >= Val(mem).total_results
                   THEN Answer("no_papers", FALSE, fault, None, used, 0, ev)
                   ELSE IF res.error
                   THEN Answer("search_error", FALSE, fault, asked, used, 0, ev)
                   ELSE IF paper_index >= res.n
                   THEN Answer("no_papers", FALSE, fault, asked, used, 0, ev)
                   ELSE IF ~probe.ok
                   THEN Answer("error", TRUE, fault, asked, used, 0, ev)
                   ELSE IF probe.file_size > TELEGRAM_FILE_SIZE_LIMIT
                   THEN Answer("file_too_large", TRUE, fault, asked, used,
                               probe.file_size, ev)
                   ELSE IF probe.file_size > MAX_SINGLE_DOWNLOAD_MB * MB
                   THEN Answer("exceeds_limit", TRUE, fault, asked, used,
                               probe.file_size, ev)
                   ELSE IF fault = "send_document"
                   THEN /\ UNCHANGED pdf_downloads
                        /\ out' = DownloadOut({"fetching", "send_failed"}, 2,
                                              TRUE, FALSE, asked, used,
                                              probe.file_size, ev)
                   ELSE /\ pdf_downloads' =
                            IF fault = "db_insert" \/ db = None
                            THEN pdf_downloads
                            ELSE InsertDownload(pdf_downloads, now,
                                                probe.file_size)
                        /\ out' = DownloadOut(
                                    {"fetching", "document",
                                     IF fault = "send_reply"
                                     THEN "send_failed" ELSE "sent_ok"},
                                    3, fault # "delete", FALSE, asked, used,
                                    probe.file_size, ev)

\* The rows of TELEGRAM_FILE_SIZE_LIMIT each that fit under the limit.
FullRows == (TRAFFIC_LIMIT_MB * MB) \div TELEGRAM_FILE_SIZE_LIMIT

\* A ledger of the first day whose total is the limit less short: rows of
\* the largest file that can be sent, and one row with the rest.
Ledger(short) ==
    LET total == TRAFFIC_LIMIT_MB * MB - short
        full == [day |-> 0, file_size |-> TELEGRAM_FILE_SIZE_LIMIT]
        rest == [day |-> 0, file_size |-> total % TELEGRAM_FILE_SIZE_LIMIT]
    IN  [r \in {full} |-> total \div TELEGRAM_FILE_SIZE_LIMIT]
            (+) (IF rest.file_size > 0 THEN SetToBag({rest}) ELSE EmptyBag)

\* The ledgers SpecDownload starts from: a day's downloads that end 20 MB,
\* 1 MB or 1 KB under the limit, or at the limit.  (On the next day the same
\* rows are yesterday's and today's total is 0.)
InitLedgers ==
    {Ledger(short) : short \in {TELEGRAM_FILE_SIZE_LIMIT, MB, 1, 0}}

\* A session after a search for "a" that found MaxPapers papers, its Load
\* More state cleared.
SearchedSession ==
    [DefaultUserState EXCEPT !.query = Some(<<"a">>),
                             !.total_results = MaxPapers]

\* A session after a search for "a" that found no paper.
EmptySearchSession == [DefaultUserState EXCEPT !.query = Some(<<"a">>)]

\* The sessions SpecDownload starts from: a user with a searched session; the
\* same user after a restart of the bot (no session in memory); a user who
\* only pressed Search; a user whose search found nothing.
InitSessions ==
    { [m |-> Some(SearchedSession), row |-> save_to_db(SearchedSession)],
      [m |-> None, row |-> save_to_db(SearchedSession)],
      [m |-> Some([DefaultUserState EXCEPT !.state = AWAITING_QUERY]),
       row |-> save_to_db([DefaultUserState
                              EXCEPT !.state = AWAITING_QUERY])],
      [m |-> Some(EmptySearchSession),
       row |-> save_to_db(EmptySearchSession)] }

InitDownload ==
    /\ now = 0
    /\ user_request_counts = <<>>
    /\ \E session \in InitSessions : mem = session.m /\ db = session.row
    /\ jobs = {}
    /\ out = Out("init", "none", None, {}, FALSE, NoObs)
    /\ rate_log = NoRateLog
    /\ pg = NoPg
    /\ cb = NoCallbacks
    /\ pdf_downloads \in InitLedgers
    /\ traffic_limits = None
    /\ chat = NoChat

\* The request passes the quota check, the session check and the check of
\* the index against total_results, so that the provider is asked.
AsksProvider(paper_index) ==
    /\ ~QuotaReached(TotalOfDay(pdf_downloads, Day(now)))
    /\ mem # None
    /\ IF mem = None THEN FALSE ELSE
            /\ ~NoQuery(Val(mem))
            /\ ~(Val(mem).total_results > 0
                    /\ paper_index >= Val(mem).total_results)

\* The provider's outcomes and the probe's are drawn when they are consumed.
ProviderFor(paper_index) ==
    IF AsksProvider(paper_index) THEN SearchOutcomes ELSE {NotAsked}

ProbesFor(paper_index, res) ==
    IF AsksProvider(paper_index) /\ ~res.error /\ paper_index < res.n
    THEN Probes ELSE {NotProbed}

\* Download buttons are pressed while the ledger has room in the model.
Download ==
    /\ BagCardinality(pdf_downloads) < FullRows + 1 + MaxDownloads
    /\ \E paper_index \in {0, MaxPapers} :
        \E res \in ProviderFor(paper_index) :
        \E probe \in ProbesFor(paper_index, res), fault \in DownloadFaults :
            /\ download_paper(paper_index, res, probe, fault, 1)
            /\ UNCHANGED chat

\* A day passes.
DayTick ==
    /\ now + SECONDS_PER_DAY <= MaxDownloadTime
    /\ now' = now + SECONDS_PER_DAY
    /\ UNCHANGED <<user_request_counts, mem, db, jobs, out, rate_log, pg, cb,
                   pdf_downloads, traffic_limits, chat>>

NextDownload == Download \/ DayTick

SpecDownload == InitDownload /\ [][NextDownload]_vars

(* ---------------------------------------------------------------------- *)
(* Downloads with the application's error handler                          *)
(* ---------------------------------------------------------------------- *)

\* The retries error_handler makes at most.
MAX_RETRIES == 3

\* A NetworkError has left download_paper and error_handler has attempts left.
RetryPending ==
    /\ out.op = "download_paper"
    /\ out.raised
    /\ out.network
    /\ out.runs <= MAX_RETRIES

\* All attempts of error_handler ended with a NetworkError.
RetriesExhausted ==
    /\ out.op = "download_paper"
    /\ out.raised
    /\ out.network
    /\ out.runs = MAX_RETRIES + 1

\* The application handles one update, its error handler included, at a time.
NextUpdate ==
    /\ ~RetryPending
    /\ ~RetriesExhausted
    /\ Download

\* One attempt of error_handler's loop for a NetworkError that left
\* download_paper: the CallbackQueryHandler that matches the update is asked
\* to handle it again.  handle_update is the library's: the call either runs
\* download_paper once more (handle_update_runs) or raises out of
\* error_handler at once.
error_handler(handle_update_runs) ==
    /\ RetryPending
    /\ IF handle_update_runs
       THEN \E res \in ProviderFor(out.index) :
            \E probe \in ProbesFor(out.index, res), fault \in DownloadFaults :
                /\ download_paper(out.index, res, probe, fault, out.runs + 1)
                /\ UNCHANGED chat
       ELSE /\ out' = [out EXCEPT !.op = "error_handler"]
            /\ UNCHANGED <<now, user_request_counts, mem, db, jobs, rate_log,
                           pg, cb, pdf_downloads, traffic_limits, chat>>

\* Lines 1767-1772: after the last attempt error_handler answers with the
\* network error message.
error_handler_gives_up ==
    /\ RetriesExhausted
    /\ out' = [out EXCEPT !.op = "error_handler", !.raised = FALSE,
                          !.replies = {"network_error"}, !.sent = 1]
    /\ UNCHANGED <<now, user_request_counts, mem, db, jobs, rate_log, pg, cb,
                   pdf_downloads, traffic_limits, chat>>

\* A user with a searched session, 1 MB under the day's limit.
InitRetry ==
    /\ InitDownload
    /\ mem = Some(SearchedSession)
    /\ pdf_downloads = Ledger(MB)

NextRetry ==
    \/ NextUpdate
    \/ \E handle_update_runs \in BOOLEAN : error_handler(handle_update_runs)
    \/ error_handler_gives_up

SpecRetry == InitRetry /\ [][NextRetry]_vars

(* ---------------------------------------------------------------------- *)
(* Searches with the provider's answer spelled out                         *)
(* ---------------------------------------------------------------------- *)

\* The most entries of a feed whose processing fails.
MaxBad == 1

\* The exceptions search_arxiv has except clauses for; "Exception" is any
\* other.
ProviderRaises ==
    {"HTTPError", "UnexpectedEmptyPageError", "Timeout", "ConnectionError",
     "RequestException", "Exception"}

\* The "error" key of the dict search_arxiv returns for the exception.
ErrorKind(exc) ==
    CASE exc = "HTTPError" -> "http"
      [] exc = "UnexpectedEmptyPageError" -> "empty_page"
      [] exc = "Timeout" -> "timeout"
      [] exc = "ConnectionError" -> "connection"
      [] exc = "RequestException" -> "request"
      [] OTHER -> "unknown"

\* A feed of bad entries whose processing raises, then good well-formed ones.
Feed(bad, good) == [i \in 1..(bad + good) |-> i > bad]

\* What the provider does with a request: the client raises, or yields the
\* entries of a feed.
ProviderResponses ==
    {[raises |-> Some(exc), entries |-> <<>>] : exc \in ProviderRaises}
        \cup {[raises |-> None, entries |-> Feed(bad, good)] :
                bad \in 0..MaxBad, good \in {0, RESULTS_PER_PAGE, MaxPapers}}

\* The entry was processed and appended.
Appended(entry) == entry

\* search_arxiv: the error dict of the exception raised, or the entries that
\* were processed; an entry whose processing raises is logged and skipped.
search_arxiv(resp) ==
    IF resp.raises # None
    THEN [error |-> TRUE, n |-> 0, kind |-> ErrorKind(Val(resp.raises))]
    ELSE [error |-> FALSE, n |-> Len(SelectSeq(resp.entries, Appended)),
          kind |-> "none"]

\* What the provider will do with the next request.
ProviderHolds(resp) ==
    /\ out.op # "provider"
    /\ out' = [op |-> "provider", response |-> resp]
    /\ UNCHANGED <<now, user_request_counts, mem, db, jobs, rate_log, pg, cb,
                   pdf_downloads, traffic_limits, chat>>

\* A text message, answered from what the provider holds.
SearchText(raw, fault) ==
    /\ out.op = "provider"
    /\ handle_text(raw, search_arxiv(out.response), fault)
    /\ UNCHANGED chat

NextSearch ==
    \/ \E resp \in ProviderResponses : ProviderHolds(resp)
    \/ \E raw \in RawTexts, fault \in {"none", "send_found"} :
            SearchText(raw, fault)

SpecSearch == Init /\ [][NextSearch]_vars

(* ---------------------------------------------------------------------- *)
(* The session store with its conversions                                  *)
(* ---------------------------------------------------------------------- *)

\* The highest current_page of a stored session.
MaxStorePage == 1

\* datetime values in UTC: whole seconds and microseconds.
DateTimes == [s : {0, LOAD_MORE_TIMEOUT}, us : {0, 1, 999999}]

\* The decimal digits of n.
RECURSIVE Digits(_)
Digits(n) == IF n < 10 THEN <<n>> ELSE Append(Digits(n \div 10), n % 10)

\* The number the decimal digits spell.
RECURSIVE Number(_)
Number(ds) ==
    IF Len(ds) = 0 THEN 0
    ELSE 10 * Number(SubSeq(ds, 1, Len(ds) - 1)) + ds[Len(ds)]

\* Six digits of microseconds, with leading zeros.
Digits6(us) == [i \in 1..(6 - Len(Digits(us))) |-> 0] \o Digits(us)

\* datetime.isoformat() without its microseconds.
isoformat_NoMicroseconds(dt) == <<Digits(dt.s), "+00:00">>

\* datetime.isoformat(): the microseconds are written only when they are not
\* 0; the offset of UTC follows.
isoformat(dt) ==
    IF dt.us = 0
    THEN <<Digits(dt.s), "+00:00">>
    ELSE <<Digits(dt.s), ".", Digits6(dt.us), "+00:00">>

\* datetime.fromisoformat() of such a text.
fromisoformat(text) ==
    IF Len(text) = 2
    THEN [s |-> Number(text[1]), us |-> 0]
    ELSE [s |-> Number(text[1]), us |-> Number(text[3])]

\* The session values the store is exercised with.
StoredSessions ==
    [state : {None, AWAITING_QUERY},
     query : {None, Some(<<>>), Some(<<"a">>)},
     current_page : 0..MaxStorePage,
     load_more_timestamp : {None} \cup {Some(dt) : dt \in DateTimes},
     load_more_message_id : {None} \cup {Some(m) : m \in MessageIds},
     last_search_time : {None} \cup {Some(dt) : dt \in DateTimes},
     total_results : {0, RESULTS_PER_PAGE},
     timeout_job : {None, Some("j1")}]

\* The row save_to_db writes: the two datetimes as text when they are set.
save_to_db_row(u) ==
    Some([state |-> u.state, query |-> u.query,
          current_page |-> u.current_page,
          load_more_timestamp |->
              IF u.load_more_timestamp # None
              THEN Some(isoformat(Val(u.load_more_timestamp))) ELSE None,
          load_more_message_id |-> u.load_more_message_id,
          last_search_time |->
              IF u.last_search_time # None
              THEN Some(isoformat(Val(u.last_search_time))) ELSE None,
          total_results |-> u.total_results,
          status |-> "active"])

\* UserState(user_id) with _load_from_db: the defaults when there is no row,
\* else the row's columns with the two texts parsed; timeout_job is None.
load_from_db(row) ==
    IF row = None
    THEN DefaultUserState
    ELSE [state |-> Val(row).state, query |-> Val(row).query,
          current_page |-> Val(row).current_page,
          load_more_timestamp |->
              IF Val(row).load_more_timestamp # None
              THEN Some(fromisoformat(Val(Val(row).load_more_timestamp)))
              ELSE None,
          load_more_message_id |-> Val(row).load_more_message_id,
          last_search_time |->
              IF Val(row).last_search_time # None
              THEN Some(fromisoformat(Val(Val(row).last_search_time)))
              ELSE None,
          total_results |-> Val(row).total_results,
          timeout_job |-> None]

\* A process holds some session of a user; the store has no row yet.
InitStore ==
    /\ now = 0
    /\ user_request_counts = <<>>
    /\ mem \in {Some(u) : u \in StoredSessions}
    /\ db = None
    /\ jobs = {}
    /\ out = Out("init", "none", None, {}, FALSE, NoObs)
    /\ rate_log = NoRateLog
    /\ pg = NoPg
    /\ cb = NoCallbacks
    /\ pdf_downloads = EmptyBag
    /\ traffic_limits = None
    /\ chat = NoChat

\* The session in memory is saved.
Save ==
    /\ mem # None
    /\ db' = save_to_db_row(Val(mem))
    /\ out' = [op |-> "save"]
    /\ UNCHANGED <<now, user_request_counts, mem, jobs, rate_log, pg, cb,
                   pdf_downloads, traffic_limits, chat>>

\* user_states[user_id] = UserState(user_id): the session is loaded anew.
Load ==
    /\ mem' = Some(load_from_db(db))
    /\ out' = [op |-> "load", had_row |-> db # None,
               after_save |-> out.op = "save"]
    /\ UNCHANGED <<now, user_request_counts, db, jobs, rate_log, pg, cb,
                   pdf_downloads, traffic_limits, chat>>

NextStore == Save \/ Load

SpecStore == InitStore /\ [][NextStore]_vars

(* ---------------------------------------------------------------------- *)
(* The rate limiter alone, on a finer clock                                *)
(* ---------------------------------------------------------------------- *)

\* The clock of SpecRate advances RateStep seconds at a time, to MaxRateTime.
RateStep == 20

MaxRateTime == 120

\* A call of check_rate_limit(user_id) at the current time.
CheckRateLimit ==
    LET rl == check_rate_limit(user_request_counts, now)
    IN  /\ user_request_counts' = rl.counts
        /\ rate_log' = [called |-> TRUE, at |-> now, ok |-> rl.ok,
                        prev_ok |-> rate_log.ok,
                        before |-> user_request_counts,
                        admitted |-> IF rl.ok
                                     THEN Append(rate_log.admitted, now)
                                     ELSE rate_log.admitted]
        /\ UNCHANGED <<now, mem, db, jobs, out, pg, cb, pdf_downloads, traffic_limits, chat>>

RateTick ==
    /\ now + RateStep <= MaxRateTime
    /\ now' = now + RateStep
    /\ UNCHANGED <<user_request_counts, mem, db, jobs, out, rate_log, pg, cb,
                   pdf_downloads, traffic_limits, chat>>

NextRate == CheckRateLimit \/ RateTick

SpecRate == Init /\ [][NextRate]_vars

(* ---------------------------------------------------------------------- *)
(* The pagination of send_paper_results alone                              *)
(* ---------------------------------------------------------------------- *)

\* The cases: up to MaxLen papers, pages up to MaxPageArg, page sizes up to
\* MaxPageSize.
MaxLen == 11

MaxPageArg == 2

MaxPageSize == 5

\* send_paper_results reads page 0 whenever is_load_more is false (line
\* 1472), so a case that is no continuation has page 0.
PageCases ==
    {c \in [applied : {FALSE}, n : 0..MaxLen, page : 0..MaxPageArg,
            size : 1..MaxPageSize, cont : BOOLEAN,
            outcome : {NoPg.outcome}] : c.cont \/ c.page = 0}

InitPage ==
    /\ now = 0
    /\ user_request_counts = <<>>
    /\ mem = None
    /\ db = None
    /\ jobs = {}
    /\ out = Out("init", "none", None, {}, FALSE, NoObs)
    /\ rate_log = NoRateLog
    /\ pg \in PageCases
    /\ cb = NoCallbacks
    /\ pdf_downloads = EmptyBag
    /\ traffic_limits = None
    /\ chat = NoChat

ApplyPage ==
    /\ ~pg.applied
    /\ pg' = [pg EXCEPT !.applied = TRUE,
                        !.outcome = PageOutcome(Papers(pg.n), pg.page, pg.size,
                                                pg.cont)]
    /\ UNCHANGED <<now, user_request_counts, mem, db, jobs, out, rate_log,
                   cb, pdf_downloads, traffic_limits, chat>>

NextPage == ApplyPage

SpecPage == InitPage /\ [][NextPage]_vars

(* ---------------------------------------------------------------------- *)
(* Searches and the Download buttons they leave in the chat                *)
(* ---------------------------------------------------------------------- *)

\* The Download buttons followed per result message, and the documents a
\* behaviour transfers.
MaxButtons == 1

MaxPresses == 1

\* The buttons a handle_text run has put in the chat: paper message i of the
\* first page carries callback data download_<i>; the query it was found for
\* is in the message only.
Shown(o) ==
    IF o.op # "handle_text" \/ o.text = None THEN {}
    ELSE {[query |-> Val(o.text), index |-> i] :
            i \in 0..(Min(o.shown, MaxButtons) - 1)}

\* A text message; the result messages stay in the chat.
ShowResults ==
    \E raw \in RawTexts :
        \E res \in OutcomesFor(raw) :
            /\ handle_text(raw, res, "none")
            /\ chat' = [shown |-> chat.shown \cup Shown(out'),
                        pressed |-> None]

\* A Download button of any result message in the chat is pressed: the
\* update carries the callback data download_<index> and nothing of the
\* message's query.
Press ==
    /\ BagCardinality(pdf_downloads) < MaxPresses
    /\ \E m \in chat.shown :
        \E res \in ProviderFor(m.index) :
        \E probe \in ProbesFor(m.index, res) :
            /\ download_paper(m.index, res, probe, "none", 1)
            /\ chat' = [chat EXCEPT !.pressed = Some(m)]

NextButtons == ShowResults \/ Press

SpecButtons == Init /\ [][NextButtons]_vars

(* ---------------------------------------------------------------------- *)
(* Claims                                                                  *)
(* ---------------------------------------------------------------------- *)

Armed(u) == u.load_more_timestamp # None

\* C1: in every session, after every handler, load_more_timestamp is None if
\* and only if load_more_message_id is None.
C1_BothNullOrBothSet ==
    mem # None =>
        (Val(mem).load_more_timestamp = None
            <=> Val(mem).load_more_message_id = None)

\* The admitted timestamps in the window of length RATE_LIMIT_WINDOW that
\* ends at t.
AdmittedInWindow(t) ==
    {i \in DOMAIN rate_log.admitted :
        rate_log.admitted[i] <= t /\ t - rate_log.admitted[i] < RATE_LIMIT_WINDOW}

\* C2: no window of length RATE_LIMIT_WINDOW holds more than
\* RATE_LIMIT_REQUESTS admitted timestamps, and a request made when the window
\* that ends now already holds that many is rejected.
C2_RateLimiterSafety ==
    /\ \A i \in DOMAIN rate_log.admitted :
            Cardinality(AdmittedInWindow(rate_log.admitted[i]))
                <= RATE_LIMIT_REQUESTS
    /\ Len(user_request_counts) <= RATE_LIMIT_REQUESTS
    /\ (rate_log.called /\ rate_log.ok)
            => Cardinality(AdmittedInWindow(rate_log.at)) <= RATE_LIMIT_REQUESTS
    /\ (rate_log.called /\ ~rate_log.ok)
            => Cardinality(AdmittedInWindow(rate_log.at)) = RATE_LIMIT_REQUESTS

\* A request was rejected at a later instant than the first admission, with
\* the window full.
C2_Witness ==
    /\ rate_log.called
    /\ ~rate_log.ok
    /\ rate_log.at > rate_log.admitted[1]
    /\ Len(rate_log.admitted) = RATE_LIMIT_REQUESTS

\* C3: a request made once RATE_LIMIT_WINDOW has elapsed past the oldest
\* timestamp of a full window is admitted, whatever was rejected before; only
\* admitted requests are recorded.
C3_ReAdmission ==
    /\ (/\ rate_log.called
        /\ Len(rate_log.before) = RATE_LIMIT_REQUESTS
        /\ rate_log.at - rate_log.before[1] >= RATE_LIMIT_WINDOW) => rate_log.ok
    /\ (rate_log.called /\ ~rate_log.ok)
            => user_request_counts = rate_log.before
    /\ \A i \in DOMAIN user_request_counts :
            \E k \in DOMAIN rate_log.admitted :
                rate_log.admitted[k] = user_request_counts[i]
    /\ Len(user_request_counts) <= Len(rate_log.admitted)

\* A throttled user is admitted again, right after a rejection, exactly
\* RATE_LIMIT_WINDOW after the oldest admitted timestamp.
C3_Witness ==
    /\ rate_log.called
    /\ rate_log.ok
    /\ ~rate_log.prev_ok
    /\ Len(rate_log.before) = RATE_LIMIT_REQUESTS
    /\ rate_log.at - rate_log.before[1] = RATE_LIMIT_WINDOW

\* C4: a handle_text that the rate limiter rejects leaves the session, the
\* row and the scheduled jobs as they were, starts no search, and answers
\* with the throttling notice (the generic error when that send fails).
C4_RejectedFrame ==
    [][(out'.op = "handle_text" /\ out'.gate = "rejected")
            => /\ mem' = mem
               /\ db' = db
               /\ jobs' = jobs
               /\ out'.max_results = None
               /\ out'.returned = None
               /\ out'.replies \in {{"rate_limit"}, {"error"}}
               /\ ~out'.raised]_vars

\* A request was rejected while the session held a query and an armed
\* Load More.
C4_Witness ==
    /\ out.op = "handle_text"
    /\ out.gate = "rejected"
    /\ out.replies = {"rate_limit"}
    /\ mem # None
    /\ Val(mem).query # None
    /\ Armed(Val(mem))
    /\ jobs # {}

C6_Claimed ==
    (out.op = "handle_text" /\ "papers" \in out.replies)
        => ((Armed(Val(mem)) /\ JobIsScheduled(jobs, Val(mem).timeout_job))
                <=> out.affordance)

\* The slice results[offset : offset + size] of the ranked records 1..n,
\* written out: the records offset+1 .. min(offset+size, n).
ExpectedSlice(n, offset, size) ==
    [i \in 1..(IF offset >= n THEN 0 ELSE Min(size, n - offset)) |-> offset + i]

\* C7: with is_continuation false the visible slice is the first page_size
\* results in order, and has_more holds iff there are more than page_size
\* results.
C7_FirstPage ==
    (pg.applied /\ ~pg.cont)
        => /\ pg.outcome.visible = ExpectedSlice(pg.n, 0, pg.size)
           /\ pg.outcome.has_more <=> pg.n > pg.size

\* Ten results, page size five: the first five are shown and there are more.
C7_Witness ==
    /\ pg.applied
    /\ ~pg.cont
    /\ pg.n = 10
    /\ pg.size = 5
    /\ pg.outcome.visible = <<1, 2, 3, 4, 5>>
    /\ pg.outcome.has_more

\* C8 as claimed: on a continuation at page > 0, an offset at or past the end
\* gives an empty slice, no has_more and the "no more results" notice;
\* otherwise the slice is results[offset : offset + page_size] and has_more
\* holds iff page_size * (page + 1) < len(results).
C8_Claimed ==
    (pg.applied /\ pg.cont /\ pg.page > 0)
        => IF pg.size * pg.page >= pg.n
           THEN /\ pg.outcome.visible = <<>>
                /\ ~pg.outcome.has_more
                /\ pg.outcome.reply = "no_more_papers"
           ELSE /\ pg.outcome.reply = "papers"
                /\ pg.outcome.visible
                        = ExpectedSlice(pg.n, pg.size * pg.page, pg.size)
                /\ pg.outcome.has_more <=> pg.size * (pg.page + 1) < pg.n

\* C8 as amended: the same, but an empty result sequence is answered with
\* the "no papers" notice, and only a non-empty one with "no more results".
C8_Continuation ==
    (pg.applied /\ pg.cont /\ pg.page > 0)
        => IF pg.size * pg.page >= pg.n
           THEN /\ pg.outcome.visible = <<>>
                /\ ~pg.outcome.has_more
                /\ pg.outcome.reply
                        = (IF pg.n = 0 THEN "no_papers" ELSE "no_more_papers")
           ELSE /\ pg.outcome.reply = "papers"
                /\ pg.outcome.visible
                        = ExpectedSlice(pg.n, pg.size * pg.page, pg.size)
                /\ pg.outcome.has_more <=> pg.size * (pg.page + 1) < pg.n

\* Seven results, page size five, page 1: the last two are shown and there
\* is no more.
C8_Witness ==
    /\ pg.applied
    /\ pg.cont
    /\ pg.page = 1
    /\ pg.size = 5
    /\ pg.n = 7
    /\ pg.outcome.visible = <<6, 7>>
    /\ ~pg.outcome.has_more

\* C9: a search asks the provider for at least page_size * (current_page + 2)
\* results, and the Load More button and the timeout come from the length of
\* what the provider returned, never from the number asked for.
C9_LookAhead ==
    out.max_results # None
        => /\ mem # None
           /\ Val(out.max_results)
                >= RESULTS_PER_PAGE * (Val(mem).current_page + 2)
           /\ out.returned # None
                => /\ Val(out.returned) <= Val(out.max_results)
                   /\ out.affordance
                        => RESULTS_PER_PAGE * (Val(mem).current_page + 1)
                                < Val(out.returned)
                   /\ "papers" \in out.replies
                        => (Armed(Val(mem))
                              <=> RESULTS_PER_PAGE * (Val(mem).current_page + 1)
                                      < Val(out.returned))

\* The provider was asked for ten results and returned five: the page is
\* shown without a Load More button and no timeout is armed.
C9_Witness ==
    /\ out.max_results = Some(2 * RESULTS_PER_PAGE)
    /\ out.returned = Some(RESULTS_PER_PAGE)
    /\ out.shown = RESULTS_PER_PAGE
    /\ "papers" \in out.replies
    /\ ~out.affordance
    /\ mem # None
    /\ ~Armed(Val(mem))

\* C10: a Load More press whose message differs from the session's
\* load_more_message_id, or with no session or no query, is answered with
\* "session expired", changes no session field and raises nothing.
C10_Claimed ==
    [][(/\ out'.op = "handle_load_more"
        /\ \/ mem = None
           \/ NoQuery(Val(mem))
           \/ Val(mem).load_more_message_id # out'.text)
            => /\ out'.replies = {"session_expired"}
               /\ ~out'.raised
               /\ mem' = mem
               /\ db' = db]_vars

\* The last handler run was a Load More press that advanced the page of the
\* session that is still in memory.
PressAdvanced ==
    /\ out.op = "handle_load_more"
    /\ out.replies = {}
    /\ mem # None

\* C11: a Load More press replayed on the message of the press that has just
\* advanced the page is answered with "session expired" and leaves
\* current_page as it is.  (A step that leaves the clock alone is a handler
\* run.)
C11_Claimed ==
    [][(/\ PressAdvanced
        /\ now' = now
        /\ out'.op = "handle_load_more"
        /\ out'.text = out.text)
            => /\ out'.replies = {"session_expired"}
               /\ mem' # None
               /\ Val(mem').current_page = Val(mem).current_page]_vars

\* C12: a Load More press on a session with a query adds exactly 1 to
\* current_page, removes the scheduled timeout, searches again and answers
\* with the next page or "no more papers", and a timeout is armed afterwards
\* exactly when the answer carries the Load More button.
C12_Claimed ==
    [][(/\ now' = now
        /\ out'.op = "handle_load_more"
        /\ mem # None
        /\ ~NoQuery(Val(mem)))
            => /\ mem' # None
               /\ Val(mem').current_page = Val(mem).current_page + 1
               /\ ~JobIsScheduled(jobs', Val(mem).timeout_job)
               /\ out'.max_results # None
               /\ out'.replies \cap {"papers", "no_more_papers"} # {}
               /\ Armed(Val(mem')) <=> out'.affordance]_vars

\* C13: after the Search label or the action_search button was answered with
\* the prompt, the session awaits a query, its three Load More fields are
\* None, no timeout job is scheduled, and the row holds the same.
C13_Claimed ==
    "search_prompt" \in out.replies
        => /\ mem # None
           /\ Val(mem).state = AWAITING_QUERY
           /\ Val(mem).load_more_timestamp = None
           /\ Val(mem).load_more_message_id = None
           /\ Val(mem).timeout_job = None
           /\ jobs = {}
           /\ db = save_to_db(Val(mem))

\* The step runs the timeout callback and the callback sends the reminder.
ReminderSent ==
    /\ now' = now
    /\ jobs' # jobs
    /\ out'.op = "timeout"
    /\ "timeout_message" \in out'.replies

CallbackFiresArmed ==
    /\ now' = now
    /\ jobs' # jobs
    /\ out'.op = "timeout"
    /\ mem # None
    /\ TimeoutDue(Val(mem), now)

\* The three Load More fields of the session are None and the row holds the
\* session.
ClearedAndSaved(m, row) ==
    /\ m # None
    /\ Val(m).load_more_timestamp = None
    /\ Val(m).load_more_message_id = None
    /\ Val(m).timeout_job = None
    /\ row = save_to_db(Val(m))

\* C15: when the timeout callback has run for a session that was still armed,
\* load_more_timestamp, load_more_message_id and timeout_job are None and
\* saved, whether the reminder was delivered or not.
C15_Claimed ==
    [][CallbackFiresArmed => ClearedAndSaved(mem', db')]_vars

C17_Claimed ==
    /\ Cardinality(jobs) <= 1
    /\ \A job \in jobs :
            mem # None /\ Val(mem).timeout_job = Some(job.id)

\* The last event was a search whose page carries the Load More button.
Presented ==
    /\ out.op = "handle_text"
    /\ "papers" \in out.replies
    /\ out.affordance

\* The reminder was sent, the three Load More fields are None, and the page
\* is the one presented.
Reminded ==
    /\ out.op = "timeout"
    /\ "timeout_message" \in out.replies
    /\ mem # None
    /\ Val(mem).load_more_timestamp = None
    /\ Val(mem).load_more_message_id = None
    /\ Val(mem).timeout_job = None
    /\ Val(mem).current_page = 0

\* The user has sent another event since the page was presented.
FurtherEvent == ~Presented /\ out.op # "timeout"

\* C18: once a page with the Load More button was presented, unless the user
\* sends a further event, eventually the reminder is sent, the Load More
\* fields are cleared and current_page is still that of the page presented.
C18_Claimed == Presented ~> (Reminded \/ FurtherEvent)

\* The step is a run of download_paper (the clock stands still).
DownloadStep == now' = now /\ out'.op = "download_paper"

\* Today's total of the user's download records.
UsedToday == TotalOfDay(pdf_downloads, Day(now))

\* C19: a download requested while today's download records add up to the
\* daily limit or more is rejected: no document is sent, the provider is not
\* asked, no download record is written, and the answer is the quota message
\* (the generic error when the store or the sending of the answer fails, the
\* quota message and then the generic error when deleting the "Fetching PDF"
\* notice fails, nothing when the first notice could not be sent).
C19_QuotaRejection ==
    [][(DownloadStep /\ UsedToday >= TRAFFIC_LIMIT_MB * MB)
            => /\ pdf_downloads' = pdf_downloads
               /\ "document" \notin out'.replies
               /\ out'.max_results = None
               /\ \/ out'.replies = {"fetching", "quota"}
                  \/ out'.replies = {"fetching", "error"}
                  \/ out'.replies = {"fetching", "quota", "error"}
                  \/ out'.raised /\ out'.replies = {}]_vars

\* A request was rejected with the quota message at exactly the limit, by a
\* user whose session would otherwise allow the download.
C19_Witness ==
    /\ out.op = "download_paper"
    /\ out.replies = {"fetching", "quota"}
    /\ out.used = TRAFFIC_LIMIT_MB * MB
    /\ UsedToday = TRAFFIC_LIMIT_MB * MB
    /\ traffic_limits # None
    /\ mem # None
    /\ ~NoQuery(Val(mem))

\* The last event was a download that sent its document on this day and with
\* it brought the day's consumption to the limit or past it.
ReachedLimitByDownload ==
    /\ out.op = "download_paper"
    /\ "document" \in out.replies
    /\ out.day = Day(now)
    /\ out.used < TRAFFIC_LIMIT_MB * MB
    /\ out.used + out.file_size >= TRAFFIC_LIMIT_MB * MB

\* C20: a download requested while today's total is under the limit is not
\* answered with the quota message, whatever it adds; and the request that
\* follows a download which brought the day's consumption to the limit or
\* past it is rejected with the quota message.
C20_Claimed ==
    [][DownloadStep
        => /\ UsedToday < TRAFFIC_LIMIT_MB * MB
                => "quota" \notin out'.replies
           /\ ReachedLimitByDownload
                => /\ "document" \notin out'.replies
                   /\ pdf_downloads' = pdf_downloads
                   /\ out'.max_results = None]_vars

\* C21: download_paper asks the provider only for an index below the
\* session's total_results; an index at or above it, also when total_results
\* is 0, is rejected before search_arxiv is called.  (The provider is asked
\* for paper_index + 1 results.)
C21_Claimed ==
    [][(DownloadStep /\ out'.max_results # None)
            => /\ mem # None
               /\ Val(out'.max_results) - 1 < Val(mem).total_results]_vars

\* C22: a document whose probed size is above the platform ceiling (20 MB) or
\* the single-file ceiling (100 MB) is not transferred and leaves no record;
\* above the single-file ceiling the answer is the single-file-limit reply,
\* above the platform ceiling only it is the reply with the canonical link.
\* (A reply whose sending failed is replaced by "Failed to send PDF".)
C22_Claimed ==
    [][(DownloadStep /\ out'.file_size > TELEGRAM_FILE_SIZE_LIMIT)
            => /\ "document" \notin out'.replies
               /\ pdf_downloads' = pdf_downloads
               /\ "send_failed" \notin out'.replies
                    => IF out'.file_size > MAX_SINGLE_DOWNLOAD_MB * MB
                       THEN out'.replies = {"fetching", "exceeds_limit"}
                       ELSE out'.replies = {"fetching", "file_too_large"}]_vars

\* C23: a download_paper run that transfers the document appends exactly one
\* download record, of the day and of the size transferred, and a run that
\* transfers nothing appends none.
C23_Claimed ==
    [][DownloadStep
        => IF "document" \in out'.replies
           THEN pdf_downloads' =
                    pdf_downloads
                        (+) SetToBag({[day |-> Day(now),
                                       file_size |-> out'.file_size]})
           ELSE pdf_downloads' = pdf_downloads]_vars

\* C24: no exception leaves a handler of free text, of a search request or of
\* a Load More press: whatever fails while the handler runs, it ends without
\* raising.
C24_Claimed ==
    [][(now' = now /\ out'.op \in {"handle_text", "handle_load_more"})
            => ~out'.raised]_vars

\* C25: when save_to_db fails in a handler, the handler answers with the
\* generic error and the session in memory is what it was before the handler
\* started.  (Stated for handle_load_more, whose save is its only store call.)
C25_Claimed ==
    [][(now' = now /\ out'.op = "handle_load_more" /\ out'.save_failed)
            => /\ mem' = mem
               /\ "error" \in out'.replies
               /\ ~out'.raised]_vars

\* C26: when deleting the "Fetching PDF" notice fails, download_paper sends
\* what it sends otherwise and nothing more: the notice and one answer, or the
\* notice, the document and the confirmation.
C26_Claimed ==
    [][(DownloadStep /\ "fetching" \in out'.replies /\ ~out'.deleted)
            => /\ out'.sent = IF "document" \in out'.replies THEN 3 ELSE 2
               /\ Cardinality(out'.replies) = out'.sent]_vars

\* C27: a button press is handled by one run of its handler; nothing runs the
\* handler for the same press again, also after a network error left it.
C27_Claimed == [][DownloadStep => out'.runs = 1]_vars

\* A text message was answered by a search that asked the provider.
ProviderAsked ==
    /\ out.op = "provider"
    /\ out'.op = "handle_text"
    /\ out'.max_results # None

\* The provider reported an empty page or delivered an entry that cannot be
\* processed.
Malformed(resp) ==
    \/ resp.raises = Some("UnexpectedEmptyPageError")
    \/ \E i \in DOMAIN resp.entries : ~resp.entries[i]

\* The search armed no timeout and left total_results as it was.
NothingArmed ==
    /\ mem' # None
    /\ jobs' \subseteq jobs
    /\ IF mem' = None THEN FALSE
       ELSE /\ Val(mem').timeout_job = None
            /\ Val(mem').load_more_timestamp = None
            /\ Val(mem').total_results =
                    IF mem = None THEN 0 ELSE Val(mem).total_results

\* C28: search_arxiv returns an error for every exception of the provider and
\* a sequence otherwise; an empty page or a malformed answer never comes back
\* as an empty sequence; the handler answers an empty sequence with
\* "no papers found" and an error with the error's message (the generic error
\* when that answer cannot be sent), arms no timeout and leaves total_results.
C28_Claimed ==
    [][ProviderAsked
        => LET resp == out.response
               result == search_arxiv(resp)
               empty == ~result.error /\ result.n = 0
           IN  /\ resp.raises # None
                    => result.error /\ result.kind = ErrorKind(Val(resp.raises))
               /\ Malformed(resp) => ~empty
               /\ result.error
                    => out'.replies \in {{"searching", "search_error"},
                                         {"searching", "error"}}
               /\ empty
                    => out'.replies \in {{"searching", "no_papers"},
                                         {"searching", "error"}}
               /\ (result.error \/ empty) => NothingArmed]_vars

\* The session but for its timeout handle.
Persisted(u) == [f \in DOMAIN u \ {"timeout_job"} |-> u[f]]

\* C29: a load with no stored row gives the default session (no state, no
\* query, current_page 0, no load-more fields, total 0); a load right after a
\* save gives a session equal to the saved one on every persisted field, with
\* no timeout handle.
C29_RoundTrip ==
    [][(out'.op = "load")
        => /\ mem' # None
           /\ db = None => mem' = Some(DefaultUserState)
           /\ (out.op = "save" /\ mem # None)
                => /\ Persisted(Val(mem')) = Persisted(Val(mem))
                   /\ Val(mem').timeout_job = None]_vars

\* A session with a query, both datetimes set (one with microseconds), a
\* message id and a timeout handle was saved and loaded again.
C29_Witness ==
    /\ out.op = "load"
    /\ out.after_save
    /\ mem # None
    /\ Val(mem).query = Some(<<"a">>)
    /\ Val(mem).load_more_timestamp
            = Some([s |-> LOAD_MORE_TIMEOUT, us |-> 999999])
    /\ Val(mem).last_search_time = Some([s |-> 0, us |-> 0])
    /\ Val(mem).load_more_message_id # None
    /\ Val(mem).current_page = MaxStorePage
    /\ db = save_to_db_row(Val(mem))

\* C30: the events of a user act on the session one after the other.  When
\* the send_message of the timeout callback returns, the callback's writes are
\* those it would make if it ran as a whole at that moment: it clears the
\* session if the arm is (still) due and leaves the session as it is if an
\* event handled in between has changed the arm.
C30_Claimed ==
    [][(now' = now /\ out'.op = "timeout"
            /\ "timeout_message" \in out'.replies)
        => /\ mem # None
           /\ IF mem = None THEN FALSE
              ELSE TimeoutDue(Val(mem), now) \/ mem' = mem]_vars

\* The user has used up the rate limit: check_rate_limit would reject a
\* request made now.
Exhausted == RateLimitExceeded(PruneWindow(user_request_counts, now))

\* C31: a Load More press of a user who has used up the rate limit is not
\* acted on: the session and its row stay as they are.
C31_Claimed ==
    [][(now' = now /\ out'.op = "handle_load_more" /\ Exhausted)
            => mem' = mem /\ db' = db]_vars

\* C32: total_results is the total observed for the session's query.  A
\* search for another query that asks the provider and ends in an error or
\* with no paper does not leave the total of the previous query in the
\* session.
C32_Claimed ==
    [][(now' = now /\ out'.op = "handle_text" /\ out'.max_results # None
            /\ out'.returned \in {None, Some(0)}
            /\ mem # None /\ mem' # None)
        => IF mem = None \/ mem' = None THEN TRUE
           ELSE Val(mem').query # Val(mem).query
                    => Val(mem').total_results = 0]_vars

\* C33: when the send_message of a timeout callback returns while the session
\* holds the handle of a job that is still scheduled (a later arm), the
\* callback leaves that arm alone: load_more_timestamp and timeout_job keep
\* their values.
C33_Claimed ==
    [][(now' = now /\ out'.op = "timeout" /\ mem # None /\ mem' # None)
        => IF mem = None \/ mem' = None THEN TRUE
           ELSE (Val(mem).timeout_job # None
                    /\ JobIsScheduled(jobs, Val(mem).timeout_job))
                    => /\ Val(mem').timeout_job = Val(mem).timeout_job
                       /\ Val(mem').load_more_timestamp
                            = Val(mem).load_more_timestamp]_vars

\* The bot was restarted: no session in memory, and the user's row holds a
\* query.
LostSession ==
    /\ mem = None
    /\ db # None
    /\ IF db = None THEN FALSE
       ELSE Val(db).query # None /\ Val(db).query # Some(<<>>)

\* C34: a download press of a user whose session is only in the store (the
\* in-memory map was lost) is handled with the session loaded from the store:
\* when the store answers and the notice was sent, the press is not answered
\* "session expired".
C34_Claimed ==
    [][(DownloadStep /\ LostSession /\ ~out'.raised)
            => "session_expired" \notin out'.replies]_vars

\* C35: no operation other than /start changes the account status of the
\* user's row: a user marked 'invalid' stays so across Search presses,
\* searches, Load More presses and timeout callbacks.
C35_Claimed ==
    [][(now' = now /\ out'.op # "start" /\ db # None /\ db' # None)
            => IF db = None \/ db' = None THEN TRUE
               ELSE Val(db').status = Val(db).status]_vars

\* C36: a document transferred for a press of a Download button is a paper of
\* the query whose result message carries the button: the provider was asked
\* for that query.
C36_Claimed ==
    [][(DownloadStep /\ "document" \in out'.replies)
            => IF chat'.pressed = None THEN TRUE
               ELSE out'.query = Some(Val(chat'.pressed).query)]_vars

\* C37: after every admitted text for which the provider was searched,
\* typed while Idle or while AwaitingQuery, last_search_time is the time of
\* that search, in the session and in the user's row.
C37_Claimed ==
    [][(now' = now /\ out'.op = "handle_text" /\ out'.gate = "admitted"
            /\ out'.max_results # None)
            => /\ mem' # None
               /\ db' # None
               /\ IF mem' = None \/ db' = None THEN TRUE
                  ELSE /\ Val(mem').last_search_time = Some(now)
                       /\ Val(db').last_search_time = Some(now)]_vars

\* The row r holds the session u on every column save_to_db writes.
RowHolds(r, u) ==
    \A f \in {"state", "query", "current_page", "load_more_timestamp",
              "load_more_message_id", "last_search_time", "total_results"} :
        r[f] = u[f]

\* C38: after every handler or timeout callback that ends without raising,
\* the store working, the user's row holds the session in memory on every
\* persisted field.
C38_Claimed ==
    [][(now' = now /\ ~out'.raised /\ mem' # None /\ db' # None)
            => IF mem' = None \/ db' = None THEN TRUE
               ELSE RowHolds(Val(db'), Val(mem'))]_vars

\* C39: a document is transferred, and a row of pdf_downloads written, only
\* when a header of the size probe gave the size.
C39_Claimed ==
    [][(DownloadStep
            /\ ("document" \in out'.replies \/ pdf_downloads' # pdf_downloads))
            => out'.size_known]_vars
====
